---- MODULE Spec2Model ----
(***************************************************************************)
(* Model of the WebSocket event hub of backend/app/websockets/events.py:   *)
(* the ConnectionManager (active_connections, connect, disconnect,         *)
(* broadcast), the websocket_endpoint coroutine that serves one client,    *)
(* and the three broadcast_* producers.  Every coroutine is cut at its     *)
(* await points: one action is the code that runs between two awaits on    *)
(* the single asyncio event loop.  The camera store of                     *)
(* backend/app/api/cameras.py is modelled beside it, by the display_order  *)
(* of each stored camera.                                                  *)
(***************************************************************************)
EXTENDS Integers, Sequences, FiniteSets, TLC

\* ---- bounds ----
NumConns == 3
MaxEvents == 2
MaxFrames == 1
MaxFaults == 1
MaxCameras == 3
MaxReorder == 3

\* ---- universes ----
Conns == 1..NumConns
NoConn == 0
\* the producers of the three event types, one per broadcast_* function
Producers == {"alert", "process", "camera"}
\* the websocket_endpoint coroutine as a sender on its own connection
EP == "endpoint"
\* inbound text frames a client may send
Texts == {"ping", "hello"}
\* the exceptions a send or a receive can raise
SendErrors == {"WebSocketDisconnect", "RuntimeError", "OSError"}

VARIABLES
    active_connections, \* ConnectionManager.active_connections, a list
    pc,                 \* position of websocket_endpoint for each client
    peer,               \* the remote end of each client: open, stalled, closed
    pending,            \* per connection, the senders suspended in send_json, oldest first
    received,           \* per connection, the frames delivered to the client, in order
    inbound,            \* the inbound text frames taken by receive_text, all clients
    pings,              \* per connection, the "ping" frames the client has sent
    bpc,                \* position of each producer's broadcast call
    biter,              \* the list iterator index of each broadcast's for loop
    btarget,            \* the connection a broadcast is suspended sending to
    bmsg,               \* the message of each broadcast
    bsnap,              \* registry contents at the moment the broadcast started
    battempt,           \* connections the broadcast has called send_json on
    bfail,              \* connections whose send raised during the broadcast
    nextSeq,            \* number of broadcast_* calls issued so far
    lastProducer,       \* the producer that issued the latest call
    disconnectResult,   \* outcome of the last direct call of disconnect
    shutdown,           \* the application's shutdown event has run
    cameras_db,         \* cameras._cameras_db: display_order of each stored camera
    next_id,            \* cameras._next_id
    reorder             \* the latest reorder_cameras call: request, store before, response

vars == <<active_connections, pc, peer, pending, received, inbound, pings,
          bpc, biter, btarget, bmsg, bsnap, battempt, bfail, nextSeq,
          lastProducer, disconnectResult, shutdown, cameras_db, next_id, reorder>>

epVars == <<pc, inbound, pings>>
bVars == <<bpc, biter, btarget, bmsg, bsnap, battempt, bfail, nextSeq, lastProducer>>
hubVars == <<active_connections, peer, pending, received, epVars, bVars, disconnectResult>>
camVars == <<cameras_db, next_id, reorder>>

\* ---- Python list operations on active_connections ----

ListAppendTwiceMutant(list, x) == Append(Append(list, x), x)

\* list.append(x)
ListAppend(list, x) == Append(list, x)

\* x in list
ListContains(list, x) == \E i \in 1..Len(list) : list[i] = x

\* index of the first occurrence of x
ListIndex(list, x) == CHOOSE i \in 1..Len(list) :
                          /\ list[i] = x
                          /\ \A j \in 1..(i-1) : list[j] # x

ListRemoveKeepsMutant(list, x) == list

ListRemoveLastMutant(list, x) == SubSeq(list, 1, Len(list) - 1)

\* list.remove(x): deletes the first occurrence; raises ValueError when absent
\* (the caller tests ListContains first, the list is returned as is then)
ListRemove(list, x) ==
    IF ListContains(list, x)
    THEN LET k == ListIndex(list, x)
         IN  [i \in 1..(Len(list)-1) |-> IF i < k THEN list[i] ELSE list[i+1]]
    ELSE list

\* next() of the iterator of "for connection in self.active_connections":
\* the iterator holds an index into the live list, not a copy
ListIterNext(list, idx) ==
    IF idx < Len(list)
    THEN [stop |-> FALSE, value |-> list[idx+1], index |-> idx+1]
    ELSE [stop |-> TRUE, value |-> NoConn, index |-> idx]

Registry == {active_connections[i] : i \in 1..Len(active_connections)}

\* ---- frames ----
WelcomeFrame == [type |-> "connected", message |-> "Connected to CCTV monitoring events"]
PongFrame == [type |-> "pong"]

\* broadcast_alert(alert_data)
broadcast_alert(alert_data) == [type |-> "alert.new", data |-> alert_data]
broadcast_process_statusAlertTagMutant(process_data) ==
    [type |-> "alert.new", data |-> process_data]

\* broadcast_process_status(process_data)
broadcast_process_status(process_data) ==
    [type |-> "process.status_changed", data |-> process_data]
\* broadcast_camera_status(camera_id, status, message)
broadcast_camera_status(camera_id, status, message) ==
    [type |-> "camera.status_changed",
     data |-> [cameraId |-> camera_id, status |-> status, message |-> message]]

\* the payload a producer passes for its n-th call: n identifies the event,
\* json tells whether json.dumps accepts the payload
Payload(n, json) == [id |-> n, json |-> json]

ProducerFrame(p, n, json) ==
    CASE p = "alert" -> broadcast_alert(Payload(n, json))
      [] p = "process" -> broadcast_process_status(Payload(n, json))
      [] p = "camera" -> broadcast_camera_status(n, "active", [json |-> json])

\* json.dumps(message) succeeds
Serializable(msg) ==
    IF msg.type = "camera.status_changed" THEN msg.data.message.json ELSE msg.data.json

EventTypes == {"alert.new", "process.status_changed", "camera.status_changed"}
IsEvent(f) == f.type \in EventTypes
\* the call number of the event a frame carries
EventSeq(f) == IF f.type = "camera.status_changed" THEN f.data.cameraId ELSE f.data.id

NoMsg == [type |-> "none"]

\* no reorder_cameras call has been made since the store last changed
NoReorder == [called |-> FALSE]

\* ---- initial state: a fresh ConnectionManager, no client, no producer running ----
Init ==
    /\ active_connections = << >>
    /\ pc = [c \in Conns |-> "idle"]
    /\ peer = [c \in Conns |-> "open"]
    /\ pending = [c \in Conns |-> << >>]
    /\ received = [c \in Conns |-> << >>]
    /\ inbound = 0
    /\ pings = [c \in Conns |-> 0]
    /\ bpc = [p \in Producers |-> "idle"]
    /\ biter = [p \in Producers |-> 0]
    /\ btarget = [p \in Producers |-> NoConn]
    /\ bmsg = [p \in Producers |-> NoMsg]
    /\ bsnap = [p \in Producers |-> {}]
    /\ battempt = [p \in Producers |-> {}]
    /\ bfail = [p \in Producers |-> {}]
    /\ nextSeq = 0
    /\ lastProducer = "none"
    /\ disconnectResult = "none"
    /\ shutdown = FALSE
    /\ cameras_db = << >>
    /\ next_id = 1
    /\ reorder = NoReorder

\* ---- ConnectionManager.disconnect, as run inside an except handler ----
\* the position of the endpoint after manager.disconnect(websocket):
\* "done" when it returned, "crashed" when list.remove raised ValueError
AfterDisconnect(list, c) == IF ListContains(list, c) THEN "done" ELSE "crashed"

\* ---- websocket_endpoint ----

\* the exceptions receive_text raises other than WebSocketDisconnect
\* (KeyError on a frame that carries bytes instead of text)
ReceiveErrors == {"KeyError", "RuntimeError"}

EndpointCatchesOnlyDisconnectMutant(exc) == exc = "WebSocketDisconnect"

\* "except WebSocketDisconnect" followed by "except Exception"
EndpointCatches(exc) ==
    \/ exc = "WebSocketDisconnect"
    \/ exc \in {"WebSocketDisconnect", "RuntimeError", "OSError", "TypeError", "KeyError"}

\* an exception raised inside the try block: both except clauses call
\* manager.disconnect(websocket); an exception neither catches leaves the
\* endpoint with the connection still in the list
EndpointExcept(c, exc) ==
    IF EndpointCatches(exc)
    THEN /\ pc' = [pc EXCEPT ![c] = AfterDisconnect(active_connections, c)]
         /\ active_connections' = ListRemove(active_connections, c)
    ELSE /\ pc' = [pc EXCEPT ![c] = "escaped"]
         /\ UNCHANGED active_connections

\* number of clients that stalled or closed
Faults == Cardinality({c \in Conns : peer[c] # "open"})

\* clients are numbered in their order of arrival
Arrived(c) == \A d \in Conns : d < c => pc[d] # "idle"

\* manager.connect: accept() completes, the socket is appended, and the
\* endpoint calls send_json(welcome) without another await in between
EndpointConnect(c) ==
    /\ pc[c] = "idle"
    /\ Arrived(c)
    /\ peer[c] # "closed"
    /\ active_connections' = ListAppend(active_connections, c)
    /\ pc' = [pc EXCEPT ![c] = "welcome"]
    /\ pending' = [pending EXCEPT ![c] = Append(@, EP)]
    /\ UNCHANGED <<peer, received, inbound, pings, bVars, disconnectResult>>
    /\ UNCHANGED <<shutdown, camVars>>

\* accept() raises (the client went away during the handshake): the
\* exception leaves websocket_endpoint before the try block
EndpointAcceptFails(c) ==
    /\ pc[c] = "idle"
    /\ peer[c] = "closed"
    /\ pc' = [pc EXCEPT ![c] = "failed"]
    /\ UNCHANGED <<active_connections, peer, pending, received, inbound, pings,
                   bVars, disconnectResult>>
    /\ UNCHANGED <<shutdown, camVars>>

\* the frame the endpoint is sending at its position
EndpointFramePongMutant(c) == PongFrame

EndpointFrame(c) == IF pc[c] = "welcome" THEN WelcomeFrame ELSE PongFrame

\* the welcome or pong send_json returns: the loop goes to receive_text
EndpointSendOk(c) ==
    /\ pc[c] \in {"welcome", "pong"}
    /\ pending[c] # << >> /\ Head(pending[c]) = EP
    /\ peer[c] = "open"
    /\ received' = [received EXCEPT ![c] = Append(@, EndpointFrame(c))]
    /\ pending' = [pending EXCEPT ![c] = Tail(@)]
    /\ pc' = [pc EXCEPT ![c] = "recv"]
    /\ UNCHANGED <<active_connections, peer, inbound, pings, bVars, disconnectResult>>
    /\ UNCHANGED <<shutdown, camVars>>

\* the welcome or pong send_json raises: both except clauses call disconnect
EndpointSendFails(c) ==
    /\ pc[c] \in {"welcome", "pong"}
    /\ pending[c] # << >> /\ Head(pending[c]) = EP
    /\ peer[c] = "closed"
    /\ \E exc \in SendErrors : EndpointExcept(c, exc)
    /\ pending' = [pending EXCEPT ![c] = Tail(@)]
    /\ UNCHANGED <<peer, received, inbound, pings, bVars, disconnectResult>>
    /\ UNCHANGED <<shutdown, camVars>>

\* if data == "ping"
IsPingAnyMutant(data) == TRUE

IsPing(data) == data = "ping"

\* receive_text returns a text frame; "ping" starts the pong send
EndpointReceive(c, data) ==
    /\ pc[c] = "recv"
    /\ peer[c] = "open"
    /\ inbound < MaxFrames
    /\ inbound' = inbound + 1
    /\ pings' = [pings EXCEPT ![c] = IF data = "ping" THEN @ + 1 ELSE @]
    /\ IF IsPing(data)
       THEN /\ pc' = [pc EXCEPT ![c] = "pong"]
            /\ pending' = [pending EXCEPT ![c] = Append(@, EP)]
       ELSE UNCHANGED <<pc, pending>>
    /\ UNCHANGED <<active_connections, peer, received, bVars, disconnectResult>>
    /\ UNCHANGED <<shutdown, camVars>>

\* receive_text raises WebSocketDisconnect: except clause calls disconnect
EndpointReceiveDisconnect(c) ==
    /\ pc[c] = "recv"
    /\ peer[c] = "closed"
    /\ EndpointExcept(c, "WebSocketDisconnect")
    /\ UNCHANGED <<peer, pending, received, inbound, pings, bVars, disconnectResult>>
    /\ UNCHANGED <<shutdown, camVars>>

\* receive_text raises another exception on an open connection (a frame
\* that is not text, a transport error); when the endpoint returns the
\* server closes the socket
EndpointReceiveError(c) ==
    /\ pc[c] = "recv"
    /\ peer[c] = "open"
    /\ Faults < MaxFaults
    /\ \E exc \in ReceiveErrors : EndpointExcept(c, exc)
    /\ peer' = [peer EXCEPT ![c] = "closed"]
    /\ UNCHANGED <<pending, received, inbound, pings, bVars, disconnectResult>>
    /\ UNCHANGED <<shutdown, camVars>>

\* ---- the clients ----

\* the client closes its end (or the transport breaks)
ClientClose(c) ==
    /\ peer[c] # "closed"
    /\ Arrived(c)
    /\ peer[c] = "open" => Faults < MaxFaults
    /\ peer' = [peer EXCEPT ![c] = "closed"]
    /\ UNCHANGED <<active_connections, pending, received, epVars, bVars, disconnectResult>>
    /\ UNCHANGED <<shutdown, camVars>>

\* the client stops reading: sends to it no longer complete
ClientStall(c) ==
    /\ peer[c] = "open"
    /\ pc[c] # "idle"
    /\ Faults < MaxFaults
    /\ peer' = [peer EXCEPT ![c] = "stalled"]
    /\ UNCHANGED <<active_connections, pending, received, epVars, bVars, disconnectResult>>
    /\ UNCHANGED <<shutdown, camVars>>

\* ---- ConnectionManager.broadcast ----

BroadcastCatchesOnlyDisconnectMutant(exc) == exc = "WebSocketDisconnect"

\* "except Exception": every exception a send raises is an Exception
BroadcastCatches(exc) == exc \in {"WebSocketDisconnect", "RuntimeError", "OSError", "TypeError"}

\* the for loop from its next() to the following await: either the iterator
\* is exhausted and broadcast returns, or send_json is called on the next
\* connection and the coroutine is suspended in it.  send_json serializes
\* the message before it awaits: a message json.dumps rejects raises
\* TypeError at once on every connection left in the list
BroadcastLoop(p, msg, idx, att, fl, pend) ==
    LET it == ListIterNext(active_connections, idx)
        rest == {active_connections[i] : i \in (idx+1)..Len(active_connections)}
    IN  IF it.stop
        THEN /\ bpc' = [bpc EXCEPT ![p] = "returned"]
             /\ biter' = [biter EXCEPT ![p] = it.index]
             /\ btarget' = [btarget EXCEPT ![p] = NoConn]
             /\ battempt' = [battempt EXCEPT ![p] = att]
             /\ bfail' = [bfail EXCEPT ![p] = fl]
             /\ pending' = pend
        ELSE IF Serializable(msg)
        THEN /\ bpc' = [bpc EXCEPT ![p] = "sending"]
             /\ biter' = [biter EXCEPT ![p] = it.index]
             /\ btarget' = [btarget EXCEPT ![p] = it.value]
             /\ battempt' = [battempt EXCEPT ![p] = att \cup {it.value}]
             /\ bfail' = [bfail EXCEPT ![p] = fl]
             /\ pending' = [pend EXCEPT ![it.value] = Append(@, p)]
        ELSE IF BroadcastCatches("TypeError")
        THEN /\ bpc' = [bpc EXCEPT ![p] = "returned"]
             /\ biter' = [biter EXCEPT ![p] = Len(active_connections)]
             /\ btarget' = [btarget EXCEPT ![p] = NoConn]
             /\ battempt' = [battempt EXCEPT ![p] = att \cup rest]
             /\ bfail' = [bfail EXCEPT ![p] = fl \cup rest]
             /\ pending' = pend
        ELSE /\ bpc' = [bpc EXCEPT ![p] = "raised"]
             /\ biter' = [biter EXCEPT ![p] = it.index]
             /\ btarget' = [btarget EXCEPT ![p] = NoConn]
             /\ battempt' = [battempt EXCEPT ![p] = att \cup {it.value}]
             /\ bfail' = [bfail EXCEPT ![p] = fl \cup {it.value}]
             /\ pending' = pend

\* the producers issue their calls in turn, starting with any of them
TurnAfter(p) ==
    CASE p = "alert" -> "process" [] p = "process" -> "camera" [] p = "camera" -> "alert"

\* a producer calls its broadcast_* function, which awaits manager.broadcast
BroadcastCall(p, json) ==
    /\ bpc[p] \in {"idle", "returned"}
    /\ nextSeq < MaxEvents
    /\ lastProducer # "none" => p = TurnAfter(lastProducer)
    /\ nextSeq' = nextSeq + 1
    /\ lastProducer' = p
    /\ bmsg' = [bmsg EXCEPT ![p] = ProducerFrame(p, nextSeq + 1, json)]
    /\ bsnap' = [bsnap EXCEPT ![p] = Registry]
    /\ BroadcastLoop(p, ProducerFrame(p, nextSeq + 1, json), 0, {}, {}, pending)
    /\ UNCHANGED <<active_connections, peer, received, epVars, disconnectResult>>
    /\ UNCHANGED <<shutdown, camVars>>

\* connection.send_json(message) returns: the frame is delivered
BroadcastSendOk(p) ==
    /\ bpc[p] = "sending"
    /\ LET c == btarget[p]
       IN  /\ pending[c] # << >> /\ Head(pending[c]) = p
           /\ peer[c] = "open"
           /\ received' = [received EXCEPT ![c] = Append(@, bmsg[p])]
           /\ BroadcastLoop(p, bmsg[p], biter[p], battempt[p], bfail[p],
                            [pending EXCEPT ![c] = Tail(@)])
    /\ UNCHANGED <<active_connections, peer, epVars, bmsg, bsnap, nextSeq,
                   lastProducer, disconnectResult>>
    /\ UNCHANGED <<shutdown, camVars>>

\* connection.send_json(message) raises: the except clause prints and the
\* loop goes on; an exception it does not catch leaves broadcast
BroadcastSendFails(p) ==
    /\ bpc[p] = "sending"
    /\ LET c == btarget[p]
       IN  /\ pending[c] # << >> /\ Head(pending[c]) = p
           /\ peer[c] = "closed"
           /\ \E exc \in SendErrors :
               IF BroadcastCatches(exc)
               THEN BroadcastLoop(p, bmsg[p], biter[p], battempt[p],
                                  bfail[p] \cup {c},
                                  [pending EXCEPT ![c] = Tail(@)])
               ELSE /\ bpc' = [bpc EXCEPT ![p] = "raised"]
                    /\ bfail' = [bfail EXCEPT ![p] = @ \cup {c}]
                    /\ pending' = [pending EXCEPT ![c] = Tail(@)]
                    /\ UNCHANGED <<biter, btarget, battempt>>
    /\ UNCHANGED <<active_connections, peer, received, epVars, bmsg, bsnap, nextSeq,
                   lastProducer, disconnectResult>>
    /\ UNCHANGED <<shutdown, camVars>>

\* ---- the server: clients served by websocket_endpoint, producers broadcasting ----
Next ==
    \/ \E c \in Conns : EndpointConnect(c)
    \/ \E c \in Conns : EndpointAcceptFails(c)
    \/ \E c \in Conns : EndpointSendOk(c)
    \/ \E c \in Conns : EndpointSendFails(c)
    \/ \E c \in Conns, data \in Texts : EndpointReceive(c, data)
    \/ \E c \in Conns : EndpointReceiveDisconnect(c)
    \/ \E c \in Conns : EndpointReceiveError(c)
    \/ \E c \in Conns : ClientClose(c)
    \/ \E c \in Conns : ClientStall(c)
    \/ \E p \in Producers, json \in BOOLEAN : BroadcastCall(p, json)
    \/ \E p \in Producers : BroadcastSendOk(p)
    \/ \E p \in Producers : BroadcastSendFails(p)

Spec == Init /\ [][Next]_vars

\* the server under the scheduling asyncio and the transport guarantee: a
\* runnable coroutine is resumed, a send on a connection whose client reads
\* completes, a send or a receive on a closed connection raises.  Nothing
\* makes a send to a stalled client complete.
Fairness ==
    /\ \A c \in Conns : WF_vars(EndpointSendOk(c))
    /\ \A c \in Conns : WF_vars(EndpointSendFails(c))
    /\ \A c \in Conns : WF_vars(EndpointReceiveDisconnect(c))
    /\ \A p \in Producers : WF_vars(BroadcastSendOk(p))
    /\ \A p \in Producers : WF_vars(BroadcastSendFails(p))

SpecFair == Init /\ [][Next]_vars /\ Fairness

\* ---- the camera store: _cameras_db, create_camera, delete_camera, reorder_cameras ----

\* ids a request can name: those create_camera can hand out within the bound
CameraIds == 1..MaxCameras

\* status.HTTP_404_NOT_FOUND
HTTP_404_NOT_FOUND == 404

\* raise HTTPException(status_code=HTTP_404_NOT_FOUND, detail=... camera_id ...)
HTTPException(camera_id) ==
    [exception |-> "HTTPException", status_code |-> HTTP_404_NOT_FOUND, camera_id |-> camera_id]

\* return SuccessResponse(success=True, ...)
SuccessResponse == [success |-> TRUE]

\* bodies of POST /reorder: camera_ids is any list of ints, repeats allowed
ReorderRequests ==
    UNION {[1..n -> CameraIds] : n \in 0..MaxReorder}

\* create_camera: the new camera takes id _next_id and display_order
\* len(_cameras_db); _next_id is incremented
create_camera ==
    /\ next_id <= MaxCameras
    /\ cameras_db' = [id \in DOMAIN cameras_db \cup {next_id} |->
                         IF id = next_id THEN Cardinality(DOMAIN cameras_db)
                                         ELSE cameras_db[id]]
    /\ next_id' = next_id + 1
    /\ reorder' = NoReorder
    /\ UNCHANGED <<hubVars, shutdown>>

\* delete_camera: 404 if the id is not stored, else del _cameras_db[camera_id]
delete_camera(camera_id) ==
    /\ cameras_db' = IF camera_id \notin DOMAIN cameras_db
                     THEN cameras_db
                     ELSE [id \in DOMAIN cameras_db \ {camera_id} |-> cameras_db[id]]
    /\ reorder' = NoReorder
    /\ UNCHANGED <<next_id, hubVars, shutdown>>

ReorderFirstMissingFirstOnlyMutant(db, camera_ids) ==
    IF camera_ids # << >> /\ camera_ids[1] \notin DOMAIN db THEN 1 ELSE 0

\* the validation loop of reorder_cameras: the index of the first id of
\* camera_ids that is not in the store, 0 if the loop ends without raising
ReorderFirstMissing(db, camera_ids) ==
    IF \E i \in 1..Len(camera_ids) : camera_ids[i] \notin DOMAIN db
    THEN CHOOSE i \in 1..Len(camera_ids) :
             /\ camera_ids[i] \notin DOMAIN db
             /\ \A j \in 1..(i - 1) : camera_ids[j] \in DOMAIN db
    ELSE 0

\* the update loop of reorder_cameras from list position k on:
\* for order, camera_id in enumerate(camera_ids):
\*     _cameras_db[camera_id].display_order = order
RECURSIVE ReorderApply(_, _, _)
ReorderApply(db, camera_ids, k) ==
    IF k > Len(camera_ids) THEN db
    ELSE ReorderApply([db EXCEPT ![camera_ids[k]] = k - 1], camera_ids, k + 1)

\* reorder_cameras: the handler has no await, it runs as one step
reorder_cameras(camera_ids) ==
    LET missing == ReorderFirstMissing(cameras_db, camera_ids) IN
    /\ cameras_db' = IF missing # 0 THEN cameras_db
                     ELSE ReorderApply(cameras_db, camera_ids, 1)
    /\ reorder' = [called |-> TRUE,
                   camera_ids |-> camera_ids,
                   before |-> cameras_db,
                   response |-> IF missing # 0 THEN HTTPException(camera_ids[missing])
                                ELSE SuccessResponse]
    /\ UNCHANGED <<next_id, hubVars, shutdown>>

\* update_camera and update_camera_status keep id and display_order of the
\* camera they touch: they leave this view of the store unchanged
NextCameras ==
    \/ create_camera
    \/ \E camera_id \in CameraIds : delete_camera(camera_id)
    \/ \E camera_ids \in ReorderRequests : reorder_cameras(camera_ids)

SpecCameras == Init /\ [][NextCameras]_vars

\* ---- process shutdown ----

\* shutdown_event: the handler prints a line; closing the WebSocket
\* connections is a TODO comment, and ConnectionManager has no method that
\* closes or clears active_connections
ShutdownEvent ==
    /\ ~shutdown
    /\ shutdown' = TRUE
    /\ UNCHANGED <<hubVars, camVars>>

\* the server runs the shutdown handlers last: once they have run the
\* event loop is stopped and no coroutine of the application is resumed
NextShutdown ==
    \/ ~shutdown /\ Next
    \/ ShutdownEvent

SpecShutdown == Init /\ [][NextShutdown]_vars

\* ---- the ConnectionManager driven directly through its methods ----

\* await manager.connect(websocket) on a websocket not yet accepted
MgrConnect(c) ==
    /\ pc[c] = "idle"
    /\ Arrived(c)
    /\ peer[c] # "closed"
    /\ active_connections' = ListAppend(active_connections, c)
    /\ pc' = [pc EXCEPT ![c] = "held"]
    /\ UNCHANGED <<peer, pending, received, inbound, pings, bVars, disconnectResult>>
    /\ UNCHANGED <<shutdown, camVars>>

\* manager.disconnect(websocket) on a websocket the caller connected
\* earlier, whether or not it is still in the list
MgrDisconnect(c) ==
    /\ pc[c] = "held"
    /\ disconnectResult' = IF ListContains(active_connections, c)
                           THEN "returned" ELSE "ValueError"
    /\ active_connections' = ListRemove(active_connections, c)
    /\ UNCHANGED <<peer, pending, received, epVars, bVars>>
    /\ UNCHANGED <<shutdown, camVars>>

NextManager ==
    \/ \E c \in Conns : MgrConnect(c)
    \/ \E c \in Conns : MgrDisconnect(c)
    \/ \E c \in Conns : ClientClose(c)
    \/ \E p \in Producers, json \in BOOLEAN : BroadcastCall(p, json)
    \/ \E p \in Producers : BroadcastSendOk(p)
    \/ \E p \in Producers : BroadcastSendFails(p)

SpecManager == Init /\ [][NextManager]_vars

TypeOK ==
    /\ \A c \in Conns : pc[c] \in {"idle", "failed", "welcome", "recv", "pong", "done", "crashed", "escaped", "held"}
    /\ \A p \in Producers : bpc[p] \in {"idle", "sending", "returned", "raised"}
    /\ \A p \in Producers : btarget[p] \in Conns \cup {NoConn}
    /\ \A c \in Conns : peer[c] \in {"open", "stalled", "closed"}
    /\ disconnectResult \in {"none", "returned", "ValueError"}

\* ---- helpers of the properties ----

\* the endpoint positions between the return of connect and disconnect
Serving == {"welcome", "recv", "pong"}

\* copies of message m delivered to connection c
Copies(c, m) == Cardinality({i \in 1..Len(received[c]) : received[c][i] = m})

CountPong(frames) == Cardinality({i \in 1..Len(frames) : frames[i].type = "pong"})

IsPrefix(s, t) == Len(s) <= Len(t) /\ \A i \in 1..Len(s) : s[i] = t[i]

\* a connection that was registered when the broadcast started, is still
\* registered and open, and whose send did not fail
Healthy(p, c) ==
    /\ c \in bsnap[p]
    /\ c \in Registry
    /\ peer[c] = "open"
    /\ c \notin bfail[p]

\* the capacity the registry is configured with (spec section 6), set so
\* that the clients of the model can exceed it
MaxConnections == NumConns - 1

\* ---- C1 ----
\* C1: when a broadcast has returned, every connection that was in the
\* registry when it started, stayed open and registered and had no send
\* failure has received exactly one copy of the broadcast's message.
C1_FanOutComplete ==
    \A p \in Producers : bpc[p] = "returned" =>
        \A c \in Conns : Healthy(p, c) => Copies(c, bmsg[p]) = 1

\* ---- C2 ----
\* C2: when a broadcast in which the send to some connection Ci raised has
\* returned, it has called send_json on every other connection that was
\* registered when it started and is still registered.
C2_Isolation ==
    \A p \in Producers : bpc[p] = "returned" =>
        \A ci \in bfail[p] : \A cj \in (bsnap[p] \cap Registry) \ {ci} :
            cj \in battempt[p]

\* ---- C3 ----
\* C3: on every connection the event frames are delivered in the order in
\* which their broadcasts were called.
C3_PerConnectionOrder ==
    \A c \in Conns : \A i, j \in 1..Len(received[c]) :
        (i < j /\ IsEvent(received[c][i]) /\ IsEvent(received[c][j]))
            => EventSeq(received[c][i]) < EventSeq(received[c][j])

C5_FailedSendDeregisters ==
    \A p \in Producers : bpc[p] = "returned" =>
        \A c \in bfail[p] :
            (Serializable(bmsg[p]) /\ peer[c] = "closed") => c \notin Registry

\* ---- C6 ----
\* the pings of connection c are answered: one pong delivered per ping,
\* the last one possibly still being sent, none owed when the endpoint is
\* back at receive_text
HeartbeatAnswered(c) ==
    /\ CountPong(received[c]) <= pings[c]
    /\ pc[c] = "recv" => CountPong(received[c]) = pings[c]
    /\ pc[c] = "pong" => CountPong(received[c]) + 1 = pings[c]
    /\ pc[c] \in {"idle", "failed", "welcome"} => pings[c] = 0

C7_CapacityLimit ==
    [][Len(active_connections) >= MaxConnections
          => Len(active_connections') <= Len(active_connections)]_vars

\* ---- C8 ----
\* C8: no broadcast ends by raising to the producer, whatever the sends do
\* and whatever connects or disconnects during the iteration.
C8_PublishNeverRaises == \A p \in Producers : bpc[p] # "raised"

\* a broadcast returned after a send raised and the registry changed under it
C8_Witness ==
    \E p \in Producers :
        /\ bpc[p] = "returned"
        /\ bfail[p] # {}
        /\ Serializable(bmsg[p])
        /\ Registry # bsnap[p]

\* ---- C9 ----
\* C9: a broadcast that has started sending eventually returns, also when
\* one client never reads.
C9_BroadcastReturns ==
    \A p \in Producers : (bpc[p] = "sending") ~> (bpc[p] = "returned")

\* ---- C10 ----
\* C10: disconnect of a connection that is not in the registry returns
\* without error.
C10_DisconnectIdempotent == disconnectResult # "ValueError"

\* ---- C11 ----
\* the type tag the interface gives to the events of each producer
ClaimedType(p) ==
    CASE p = "alert" -> "alert.new"
      [] p = "process" -> "process.status_changed"
      [] p = "camera" -> "camera.status_changed"

\* the payload the producer passed on call n, as the interface shows it
ClaimedData(p, n) ==
    IF p = "camera"
    THEN [cameraId |-> n, status |-> "active", message |-> [json |-> TRUE]]
    ELSE [id |-> n, json |-> TRUE]

\* C11: every frame a broadcast_* call delivers is {type: T, data: P} with
\* T the tag of that producer and P the payload it passed, the same frame
\* on every connection that receives it.
C11_FrameShape ==
    \A p \in Producers : bmsg[p] # NoMsg =>
        \A c \in Conns : \A i \in 1..Len(received[c]) :
            (IsEvent(received[c][i]) /\ EventSeq(received[c][i]) = EventSeq(bmsg[p]))
                => received[c][i] = [type |-> ClaimedType(p),
                                     data |-> ClaimedData(p, EventSeq(bmsg[p]))]

\* three registered connections have all received the frame of one broadcast
C11_Witness ==
    \E p \in Producers :
        /\ bpc[p] = "returned"
        /\ Cardinality(Registry) = 3
        /\ \A c \in Registry : Copies(c, bmsg[p]) = 1

\* ---- C12 ----
\* C12: taking an inbound text frame changes neither the registry nor what
\* any client has been sent; the only send it starts is the pong on the
\* connection that sent "ping", and a frame other than "ping" starts none
\* and leaves every endpoint where it was.
C12_InboundNoSideEffects ==
    [][inbound' # inbound =>
          /\ active_connections' = active_connections
          /\ received' = received
          /\ \A c \in Conns :
                IF pings'[c] # pings[c]
                THEN /\ pending'[c] = Append(pending[c], EP)
                     /\ c \in Registry
                ELSE /\ pending'[c] = pending[c]
                     /\ pc'[c] = pc[c]]_vars

\* a frame other than "ping" was taken while two connections were registered
C12_Witness ==
    /\ inbound = 1
    /\ \A c \in Conns : pings[c] = 0
    /\ Cardinality(Registry) >= 2
    /\ \E c \in Conns : pc[c] = "recv"

\* ---- C13 ----
\* C13: the connections a broadcast has called send_json on, once it has
\* returned, are exactly those in the registry when it started.
C13_SnapshotIteration ==
    \A p \in Producers : bpc[p] = "returned" => battempt[p] = bsnap[p]

\* ---- C14 ----
\* C14: at most one send is in progress on a connection at any time.
C14_ExclusiveSender == \A c \in Conns : Len(pending[c]) <= 1

\* ---- C15 ----
\* C15: whenever the endpoint of a registered connection stops serving it
\* (the client disconnected, receive_text raised, the welcome or pong send
\* raised), disconnect has returned, that connection is gone from the
\* registry and the other entries of the registry are as before.
C15_TerminationDeregisters ==
    [][\A c \in Conns : (pc[c] \in Serving /\ pc'[c] \notin Serving) =>
          /\ pc'[c] = "done"
          /\ c \notin {active_connections'[i] : i \in 1..Len(active_connections')}
          /\ Len(active_connections') = Len(active_connections) - 1
          /\ \A i \in 1..Len(active_connections) :
                active_connections[i] # c =>
                    \E j \in 1..Len(active_connections') :
                        active_connections'[j] = active_connections[i]]_vars

\* an endpoint ended on an error of receive_text while its client was
\* connected, and another connection is still registered and served
C15_Witness ==
    \E c, d \in Conns :
        /\ pc[c] = "done" /\ Len(received[c]) >= 1
        /\ pc[d] = "recv" /\ d \in Registry
        /\ c < d

\* ---- C16 ----
\* number of entries of the list that are connection c
Occurrences(list, c) == Cardinality({i \in 1..Len(list) : list[i] = c})

\* C16: the registry never holds a connection twice, and a connection is
\* added to it only when it has never been registered before.
C16_OneDirectionalLifecycle ==
    [][\A c \in Conns :
          /\ Occurrences(active_connections', c) <= 1
          /\ Occurrences(active_connections', c) > Occurrences(active_connections, c)
                => pc[c] = "idle"]_vars

\* a connection has been deregistered and two later ones are registered
C16_Witness ==
    \E c \in Conns :
        /\ pc[c] = "done" /\ c \notin Registry
        /\ Len(active_connections) = 2
        /\ \A d \in Registry : d > c

\* ---- C17 ----
\* C17: once disconnect has removed a connection, send_json is not called
\* on it again: no sender joins those still suspended on it, and its own
\* endpoint is not among them.
C17_NoSendAfterClosed ==
    [][\A c \in Conns : pc[c] = "done" =>
          /\ Len(pending'[c]) <= Len(pending[c])
          /\ \A i \in 1..Len(pending'[c]) : pending'[c][i] # EP]_vars

\* a connection was deregistered while a broadcast that started with it in
\* the registry was in progress, and that broadcast is sending to another
C17_Witness ==
    \E p \in Producers, c \in Conns :
        /\ bpc[p] = "sending"
        /\ c \in bsnap[p] /\ c \notin battempt[p]
        /\ pc[c] = "done"
        /\ btarget[p] > c

\* ---- C18 ----
\* C18: a registered connection has either the welcome send of its own
\* endpoint at the head of its outbound queue with nothing delivered yet,
\* or the welcome frame as the first frame delivered; no event frame and no
\* pong is ever first.
C18_WelcomeFirst ==
    \A c \in Conns :
        /\ received[c] # << >> => received[c][1] = WelcomeFrame
        /\ (c \in Registry /\ received[c] = << >>) =>
               /\ pc[c] = "welcome"
               /\ pending[c] # << >> /\ Head(pending[c]) = EP

\* a broadcast has called send_json on a registered connection whose
\* welcome is still in flight: its send waits behind the welcome
C18_Witness ==
    \E c \in Conns :
        /\ c \in Registry /\ pc[c] = "welcome" /\ received[c] = << >>
        /\ Len(pending[c]) >= 2
        /\ Head(pending[c]) = EP
        /\ pending[c][2] \in Producers

\* ---- C19 ----
\* C19: once the shutdown handler has run, the registry is empty, no
\* endpoint is still serving a connection and no broadcast is suspended in
\* a send.
C19_ShutdownDrains ==
    shutdown =>
        /\ active_connections = << >>
        /\ \A c \in Conns : pc[c] \notin Serving
        /\ \A p \in Producers : bpc[p] # "sending"

\* ---- C20 ----
\* the ids a reorder request lists
Listed(camera_ids) == {camera_ids[i] : i \in 1..Len(camera_ids)}

\* the position of the last occurrence of id in camera_ids
LastIndex(camera_ids, id) ==
    CHOOSE i \in 1..Len(camera_ids) :
        /\ camera_ids[i] = id
        /\ \A j \in (i + 1)..Len(camera_ids) : camera_ids[j] # id

\* some id of the request was not in the store when reorder_cameras was called
ReorderMissing == Listed(reorder.camera_ids) \ DOMAIN reorder.before # {}

\* the 404 half of the claim: the call raised 404 and the store is as before
ReorderRejected ==
    /\ "exception" \in DOMAIN reorder.response
    /\ reorder.response.status_code = 404
    /\ cameras_db = reorder.before

\* the stored cameras are those stored before, and the unlisted ones kept
\* their display_order
ReorderKeepsUnlisted ==
    /\ "success" \in DOMAIN reorder.response
    /\ DOMAIN cameras_db = DOMAIN reorder.before
    /\ \A id \in DOMAIN cameras_db \ Listed(reorder.camera_ids) :
           cameras_db[id] = reorder.before[id]

\* C20 as stated: after reorder_cameras, either an id was missing, the
\* call failed with 404 and no display_order changed, or camera_ids[i] has
\* display_order i for every position i (counted from 0) and unlisted
\* cameras kept theirs.
C20_ReorderAllOrNothing ==
    reorder.called =>
        IF ReorderMissing THEN ReorderRejected
        ELSE /\ ReorderKeepsUnlisted
             /\ \A i \in 1..Len(reorder.camera_ids) :
                    cameras_db[reorder.camera_ids[i]] = i - 1

\* C20 amended: as above, except that on success each listed camera has
\* the position of its last occurrence in camera_ids as display_order; that
\* is position i for camera_ids[i] when the request names no id twice.
C20_ReorderLastOccurrenceWins ==
    reorder.called =>
        IF ReorderMissing THEN ReorderRejected
        ELSE /\ ReorderKeepsUnlisted
             /\ \A id \in Listed(reorder.camera_ids) :
                    cameras_db[id] = LastIndex(reorder.camera_ids, id) - 1

\* a successful reorder whose request named a camera twice, moved it, and
\* left another stored camera unlisted
C20_Witness ==
    /\ reorder.called
    /\ ~ReorderMissing
    /\ \E i, j \in 1..Len(reorder.camera_ids) :
           i < j /\ reorder.camera_ids[i] = reorder.camera_ids[j]
    /\ DOMAIN cameras_db \ Listed(reorder.camera_ids) # {}
    /\ cameras_db # reorder.before

\* a reorder rejected for an id that follows a stored one in the request
C20_RejectedWitness ==
    /\ reorder.called
    /\ ReorderMissing
    /\ Len(reorder.camera_ids) >= 2
    /\ reorder.camera_ids[1] \in DOMAIN reorder.before
    /\ \E id \in DOMAIN cameras_db : cameras_db[id] # 0

====
